---- MODULE Spec2Model ----
(***************************************************************************)
(* ESMplus Core Helper (src/esmplus-core.js, version 1.2.2, lines 1-342;   *)
(* src/unnamed/part_000 is version 1.2.1 with the same code).              *)
(*                                                                         *)
(* Two components are modelled:                                            *)
(*   - runWithConcurrency(tasks, limit): the bounded worker pool;          *)
(*   - postJSON(url, payload, extraHeaders): the retrying request client.  *)
(* Both read the process-wide CONFIG object, which setConfig mutates.      *)
(*                                                                         *)
(* JavaScript runs the code between two awaits without interruption, so    *)
(* one action is one such run-to-completion segment: the resumption of an  *)
(* async function after the promise it awaits has settled, up to its next  *)
(* await, return or throw.  Promise reactions are queued first-in          *)
(* first-out, so the order of the actions is the order of the settlements. *)
(***************************************************************************)
EXTENDS Integers, Sequences, FiniteSets, TLC

VARIABLES
    CONFIG,     \* the CONFIG object: a function from key to value
    tasks,      \* runWithConcurrency: the batch, a sequence of thunks
    limit,      \* runWithConcurrency: <<>> for undefined/null, <<n>> for n
    results,    \* the results array
    i,          \* the shared cursor (0-based, as in the code)
    workers,    \* worker -> [pc, cur, ms]
    outcome,    \* the promise runWithConcurrency returned
    trace,      \* history of the batch: claims, writes, failures
    pj,         \* the postJSON call: locals and position
    pjTrace     \* history of the postJSON call

vars == <<CONFIG, tasks, limit, results, i, workers, outcome, trace, pj, pjTrace>>
schedVars == <<tasks, limit, results, i, workers, outcome, trace>>
postVars == <<pj, pjTrace>>

\* ---------------------------------------------------------------- bounds
MaxTasks == 3
MaxRetryBound == 6

\* ------------------------------------------------------------- utilities
Min(a, b) == IF a < b THEN a ELSE b
Max(a, b) == IF a > b THEN a ELSE b

RECURSIVE Pow2(_)
Pow2(n) == IF n <= 0 THEN 1 ELSE 2 * Pow2(n - 1)

\* --------------------------------------------------------- configuration
DefaultConfig ==
    [THROTTLE_MS |-> 0, CONCURRENCY |-> 6, USE_BATCH |-> FALSE,
     TIMEOUT_MS |-> 10000, MAX_RETRY |-> 4]

\* Object.assign(target, src)
ObjectAssign(target, src) ==
    [k \in (DOMAIN target) \cup (DOMAIN src) |->
        IF k \in DOMAIN src THEN src[k] ELSE target[k]]

\* the partial configurations handed to setConfig
SchedPartials ==
    {[CONCURRENCY |-> c] : c \in {2, 6}} \cup
    {[THROTTLE_MS |-> t] : t \in {0, 100}}

PostPartials ==
    {[MAX_RETRY |-> r] : r \in 1..MaxRetryBound} \cup
    {[TIMEOUT_MS |-> t] : t \in {50, 10000}}

\* setConfig takes any object: known keys, one or several, and other keys
ConfigPartials ==
    SchedPartials \cup PostPartials \cup
    {[USE_BATCH |-> TRUE], [DEBUG |-> TRUE],
     [THROTTLE_MS |-> 100, LOG_LEVEL |-> 2]}

\* getConfig() { return { ...CONFIG }; }
GetConfig(cfg) == [k \in DOMAIN cfg |-> cfg[k]]

\* setConfig validates nothing: MAX_RETRY below 1 is accepted as well
AnyPartials ==
    PostPartials \cup {[MAX_RETRY |-> r] : r \in {-1, 0}}

SetConfig(c) ==
    /\ CONFIG' = ObjectAssign(CONFIG, c)
    /\ UNCHANGED <<schedVars, postVars>>

\* ------------------------------------------------- runWithConcurrency
\* A thunk either resolves with val or rejects with an error object of its
\* own (see Reason).
Values == {"a", "b"}
Errors == {"E1"}
TaskKinds ==
    {[ok |-> TRUE, val |-> v] : v \in Values} \cup
    {[ok |-> FALSE, val |-> e] : e \in Errors}
Batches == UNION {[1..n -> TaskKinds] : n \in 0..MaxTasks}
Limits == {<<>>, <<-1>>, <<0>>, <<2>>, <<100>>}

Empty == "<empty>"

\* the rejection of thunk cur: an object of its own, so that the failures of
\* two thunks differ even when they read the same
Reason(ts, cur) == <<ts[cur + 1].val, cur>>

\* limit ?? CONFIG.CONCURRENCY
Coalesce(lim, conc) == IF lim = <<>> THEN conc ELSE lim[1]

SizeIgnoresLimit(lim, conc, n) == n

SizeNoCeiling(lim, conc, n) == Max(1, Coalesce(lim, conc))

\* Math.min(Math.max(1, limit ?? CONFIG.CONCURRENCY), tasks.length)
Size(lim, conc, n) == Min(Max(1, Coalesce(lim, conc)), n)

AdvanceNot(c) == c

AdvanceSkips(c) == c + 2

\* i++ : the value of the cursor after the claim
Advance(c) == c + 1

WriteFirstFree(res, cur, v) ==
    LET free == {k \in 1..Len(res) : res[k] = Empty}
        slot == IF free = {} THEN cur + 1
                ELSE CHOOSE k \in free : \A m \in free : k <= m
    IN [res EXCEPT ![slot] = v]

\* results[cur] = value
Write(res, cur, v) == [res EXCEPT ![cur + 1] = v]

ClaimUnlessRejected(S, w, n) ==
    LET cur == S.i
        stop == cur >= n \/ outcome.state = "rejected" IN
    [i |-> IF stop /\ cur < n THEN S.i ELSE Advance(S.i),
     workers |-> [S.workers EXCEPT ![w] =
                    IF stop THEN [pc |-> "done", cur |-> cur, ms |-> 0]
                            ELSE [pc |-> "running", cur |-> cur, ms |-> 0]],
     claims |-> IF ~stop THEN [S.claims EXCEPT ![cur + 1] = @ + 1]
                         ELSE S.claims,
     starts |-> IF ~stop THEN Append(S.starts, cur) ELSE S.starts]

\* One pass of the worker loop up to its await: const cur = i++;
\* if (cur >= tasks.length) break; ... tasks[cur]()
Claim(S, w, n) ==
    LET cur == S.i IN
    [i |-> Advance(S.i),
     workers |-> [S.workers EXCEPT ![w] =
                    IF cur >= n THEN [pc |-> "done", cur |-> cur, ms |-> 0]
                                ELSE [pc |-> "running", cur |-> cur, ms |-> 0]],
     claims |-> IF cur < n THEN [S.claims EXCEPT ![cur + 1] = @ + 1]
                           ELSE S.claims,
     starts |-> IF cur < n THEN Append(S.starts, cur) ELSE S.starts]

\* Array.from({length: size}, async () => ...): the workers are started one
\* after the other, each running up to its first await.
RECURSIVE Spawn(_, _, _, _)
Spawn(w, sz, S, n) ==
    IF w > sz THEN S ELSE Spawn(w + 1, sz, Claim(S, w, n), n)

StartV1(ts, lim, conc) ==
    LET n == Len(ts)
        sz == Max(1, Min(Coalesce(lim, conc), n))
        S0 == [i |-> 0,
               workers |-> [w \in 1..sz |-> [pc |-> "new", cur |-> 0, ms |-> 0]],
               claims |-> [k \in 1..n |-> 0],
               starts |-> <<>>]
    IN Spawn(1, sz, S0, n)

\* if (... tasks.length === 0) return []; otherwise size workers are started
\* on a cursor at 0
Start(ts, lim, conc) ==
    LET n == Len(ts)
        sz == Size(lim, conc, n)
        S0 == [i |-> 0,
               workers |-> [w \in 1..sz |-> [pc |-> "new", cur |-> 0, ms |-> 0]],
               claims |-> [k \in 1..n |-> 0],
               starts |-> <<>>]
    IN IF n = 0 THEN [i |-> 0, workers |-> <<>>, claims |-> <<>>,
                      starts |-> <<>>]
       ELSE Spawn(1, sz, S0, n)

RejectLast(o, err) == [state |-> "rejected", value |-> err]

\* Promise.all: the first worker promise to reject settles the result
Reject(o, err) ==
    IF o.state = "pending" THEN [state |-> "rejected", value |-> err] ELSE o

JoinAny(o, ws, res) ==
    IF o.state = "pending" /\ \E w \in DOMAIN ws : ws[w].pc = "done"
    THEN [state |-> "fulfilled", value |-> res]
    ELSE o

\* Promise.all: fulfilled when every worker promise is fulfilled;
\* return results
Join(o, ws, res) ==
    IF o.state = "pending" /\ \A w \in DOMAIN ws : ws[w].pc = "done"
    THEN [state |-> "fulfilled", value |-> res]
    ELSE o

InFlight == {w \in DOMAIN workers : workers[w].pc = "running"}

\* history: the completion of cur comes after that of a later index
Overtaken(res, cur) == \E k \in (cur + 2)..Len(res) : res[k] # Empty

\* history of one completion
Completed(tr, res, cur) ==
    [tr EXCEPT !.writes[cur + 1] = @ + 1,
               !.inverted = @ \/ Overtaken(res, cur),
               !.late = @ \/ outcome.state = "rejected"]

ThrottledNever(ms) == FALSE

\* CONFIG.THROTTLE_MS > 0
Throttled(ms) == ms > 0

FailCancelsSiblings(ws, w) ==
    [v \in DOMAIN ws |->
        IF v = w THEN [ws[v] EXCEPT !.pc = "failed"]
        ELSE IF ws[v].pc \in {"running", "sleeping"}
             THEN [ws[v] EXCEPT !.pc = "cancelled"]
             ELSE ws[v]]

FailContinues(ws, w) == [ws EXCEPT ![w].pc = "sleeping"]

\* the await in worker w throws: its async function ends, rejected; nothing
\* is done to the other workers
Fail(ws, w) == [ws EXCEPT ![w].pc = "failed"]

Call(ts, lim) ==
    /\ outcome.state = "idle"
    /\ tasks' = ts
    /\ limit' = lim
    /\ LET n == Len(ts)
           res0 == [k \in 1..n |-> Empty]
           S1 == Start(ts, lim, CONFIG.CONCURRENCY)
       IN /\ results' = res0
          /\ i' = S1.i
          /\ workers' = S1.workers
          /\ trace' = [trace EXCEPT !.claims = S1.claims,
                                    !.starts = S1.starts,
                                    !.writes = [k \in 1..n |-> 0],
                                    !.conc = CONFIG.CONCURRENCY,
                                    !.throttle = CONFIG.THROTTLE_MS]
          /\ outcome' = Join([state |-> "pending", value |-> <<>>],
                             S1.workers, res0)
    /\ UNCHANGED <<CONFIG, postVars>>

\* tasks[cur]() resolved: results[cur] = value; then the throttle sleep or
\* the next pass of the loop
TaskResolve(w) ==
    /\ workers[w].pc = "running"
    /\ tasks[workers[w].cur + 1].ok
    /\ LET cur == workers[w].cur
           n == Len(tasks)
           res1 == Write(results, cur, tasks[cur + 1].val)
           S1 == Claim([i |-> i, workers |-> workers, claims |-> trace.claims,
                        starts |-> trace.starts], w, n)
       IN /\ results' = res1
          /\ IF Throttled(CONFIG.THROTTLE_MS)
             THEN /\ workers' = [workers EXCEPT ![w].pc = "sleeping",
                                                ![w].ms = CONFIG.THROTTLE_MS]
                  /\ trace' = Completed(trace, results, cur)
                  /\ UNCHANGED <<i, outcome>>
             ELSE /\ workers' = S1.workers
                  /\ i' = S1.i
                  /\ trace' = [Completed(trace, results, cur) EXCEPT
                                    !.claims = S1.claims,
                                    !.starts = S1.starts]
                  /\ outcome' = Join(outcome, S1.workers, res1)
    /\ UNCHANGED <<CONFIG, tasks, limit, postVars>>

\* tasks[cur]() rejected: the await throws, the worker's promise rejects
TaskReject(w) ==
    /\ workers[w].pc = "running"
    /\ ~tasks[workers[w].cur + 1].ok
    /\ LET cur == workers[w].cur IN
          /\ workers' = Fail(workers, w)
          /\ trace' = [trace EXCEPT !.failed = @ + 1,
                                    !.first = IF @ = <<>> THEN <<cur>> ELSE @,
                                    !.rejAt = IF @ = <<>> THEN <<i>> ELSE @]
          /\ outcome' = Reject(outcome, Reason(tasks, cur))
    /\ UNCHANGED <<CONFIG, tasks, limit, results, i, postVars>>

\* SLEEP(CONFIG.THROTTLE_MS) is over: the next pass of the loop
Wake(w) ==
    /\ workers[w].pc = "sleeping"
    /\ LET S1 == Claim([i |-> i, workers |-> workers, claims |-> trace.claims,
                        starts |-> trace.starts], w, Len(tasks))
       IN /\ workers' = S1.workers
          /\ i' = S1.i
          /\ trace' = [trace EXCEPT !.claims = S1.claims,
                                    !.starts = S1.starts]
          /\ outcome' = Join(outcome, S1.workers, results)
    /\ UNCHANGED <<CONFIG, tasks, limit, results, postVars>>

\* ------------------------------------------------------------ postJSON
\* Texts (response bodies, error messages) are sequences of words.
Statuses == {200, 201, 404, 429, 500, 599}
Bodies == {<<>>, <<"{}">>, <<"Not", "Found">>, <<"Network", "unreachable">>}

\* the literal the code puts in place of an empty text (line 109)
DefaultText == <<"yocheong", "silpae">>

Undefined == <<"undefined">>

IsOkOnly200(status) == status = 200

\* res.ok
IsOk(status) == status >= 200 /\ status <= 299

\* res.text().catch(() => ''): the body, or '' when it cannot be read
ResText(body, readable) == IF readable THEN body ELSE <<>>

\* res.json(): the body parsed, or a rejection
JsonTexts == {"{}"}
IsJson(body) == Len(body) = 1 /\ body[1] \in JsonTexts
JsonParse(body) == <<"object", body[1]>>
JsonError(body, readable) ==
    IF readable THEN [name |-> "SyntaxError", message |-> <<"Unexpected", "token">>]
                ELSE [name |-> "TypeError", message |-> <<"body", "stream", "failed">>]

\* status === 429 || (status >= 500 && status < 600)
Retryable(status) == status = 429 \/ (status >= 500 /\ status < 600)

AttemptsRemainInclusive(attempt, maxRetry) == attempt <= maxRetry

AttemptsRemainAlways(attempt, maxRetry) == TRUE

\* attempt < MAX_RETRY
AttemptsRemain(attempt, maxRetry) == attempt < maxRetry

\* attempt <= MAX_RETRY
LoopCond(attempt, maxRetry) == attempt <= maxRetry

NextAttemptStuck(attempt) == attempt

\* attempt++
NextAttempt(attempt) == attempt + 1

TransportBackoffFlat(attempt) == 300

HttpBackoffUncapped(attempt) == 200 * Pow2(attempt - 1)

\* Math.min(2000, 200 * Math.pow(2, attempt - 1))
HttpBackoff(attempt) == Min(2000, 200 * Pow2(attempt - 1))

\* 300 * attempt
TransportBackoff(attempt) == 300 * attempt

\* new Error(`HTTP ${status}: ${text || DefaultText}`)
HttpError(status, text) ==
    [name |-> "Error",
     message |-> <<"HTTP", ToString(status), ":">> \o
                 (IF text = <<>> THEN DefaultText ELSE text)]

\* the rejections of fetch: the abort by the timeout guard, and failures of
\* the transport (two browsers' wordings)
AbortErr ==
    [name |-> "AbortError", message |-> <<"The", "user", "aborted", "a", "request.">>]
TransportErrors ==
    {[name |-> "TypeError", message |-> <<"Failed", "to", "fetch">>],
     [name |-> "TypeError", message |-> <<"Load", "failed">>]}

\* String(e)
String(e) == <<e.name, ":">> \o e.message

\* the i flag of the regular expression
Lower(w) ==
    CASE w = "Network" -> "network"
      [] w = "Failed" -> "failed"
      [] OTHER -> w

\* /network|Failed to fetch/i.test(s)
NetworkPattern(s) ==
    \E k \in 1..Len(s) :
        \/ Lower(s[k]) = "network"
        \/ /\ k + 2 <= Len(s)
           /\ Lower(s[k]) = "failed"
           /\ Lower(s[k + 1]) = "to"
           /\ Lower(s[k + 2]) = "fetch"

IsRetriableAny(e) == TRUE

\* (e.name === 'AbortError') || /network|Failed to fetch/i.test(String(e))
IsRetriable(e) == e.name = "AbortError" \/ NetworkPattern(String(e))

\* no error
NoError == [name |-> "", message |-> <<>>]

PjIdle ==
    [pc |-> "idle", attempt |-> 0, TIMEOUT_MS |-> 0, MAX_RETRY |-> 0,
     timers |-> {}, sleepMs |-> 0, value |-> <<>>, error |-> NoError]

ClearTimeoutNot(p) == p

\* clearTimeout(timer): timer is the guard of the running iteration
ClearTimeout(p) == [p EXCEPT !.timers = @ \ {p.attempt}]

\* controller.abort() of the guard armed by attempt k reaches the request of
\* attempt a: every iteration makes a controller of its own and hands its
\* signal to its own fetch
Aborts(k, a) == k = a

\* The operators below take and return the pair <<pj, pjTrace>>.

\* await SLEEP(ms); continue
Sleep(p, t, ms) ==
    <<[p EXCEPT !.pc = "sleeping", !.sleepMs = ms],
      [t EXCEPT !.sleeps = @ + 1,
                !.lastSleep = [attempt |-> p.attempt, ms |-> ms]]>>

ThrowDropped(p, t, e) == <<p, t>>

\* the call rejects with e
Throw(p, t, e) == <<[p EXCEPT !.pc = "thrown", !.error = e], t>>

\* the call resolves with v
Return(p, t, v) == <<[p EXCEPT !.pc = "returned", !.value = v], t>>

\* the head of the for loop and the body up to await fetch(...): a guard is
\* armed and the request issued; when the loop condition fails the function
\* ends without a return statement
LoopHead(p, t) ==
    IF LoopCond(p.attempt, p.MAX_RETRY)
    THEN <<[p EXCEPT !.pc = "fetching", !.timers = @ \cup {p.attempt},
                     !.sleepMs = 0],
           [t EXCEPT !.requests = @ + 1]>>
    ELSE Return([p EXCEPT !.sleepMs = 0], t, Undefined)

\* catch (e) { clearTimeout(timer); ... }
Catch(p, t, e) ==
    LET p1 == ClearTimeout(p) IN
    IF IsRetriable(e) /\ AttemptsRemain(p.attempt, p.MAX_RETRY)
    THEN Sleep(p1, t, TransportBackoff(p.attempt))
    ELSE Throw(p1, t, e)

\* set of statuses the backoff policy names retryable (429 or 5xx)
RetryableStatus(s) == s = 429 \/ s \in 500..599

PostJSON ==
    /\ pj.pc = "idle"
    /\ LET p0 == [PjIdle EXCEPT !.attempt = 1,
                                !.TIMEOUT_MS = CONFIG.TIMEOUT_MS,
                                !.MAX_RETRY = CONFIG.MAX_RETRY]
           r == LoopHead(p0, pjTrace)
       IN /\ pj' = r[1]
          /\ pjTrace' = r[2]
    /\ UNCHANGED <<CONFIG, schedVars>>

\* fetch resolved with a response
FetchResolve(status, body, readable) ==
    /\ pj.pc = "fetching"
    /\ LET p1 == ClearTimeout(pj)
           text == ResText(body, readable)
           t1 == [pjTrace EXCEPT
                    !.last = [attempt |-> pj.attempt, status |-> status,
                              body |-> body, text |-> text, error |-> NoError,
                              guard |-> 0],
                    !.onlyRetryable = @ /\ RetryableStatus(status),
                    !.onlyTimeouts = FALSE]
           r == IF IsOk(status)
                THEN IF readable /\ IsJson(body)
                     THEN Return(p1, t1, JsonParse(body))
                     ELSE Throw(p1, t1, JsonError(body, readable))
                ELSE IF Retryable(status) /\ AttemptsRemain(pj.attempt, pj.MAX_RETRY)
                     THEN Sleep(p1, t1, HttpBackoff(pj.attempt))
                     ELSE Catch(p1, t1, HttpError(status, text))
       IN /\ pj' = r[1]
          /\ pjTrace' = r[2]
    /\ UNCHANGED <<CONFIG, schedVars>>

\* fetch rejected with a failure of the transport
FetchReject(e) ==
    /\ pj.pc = "fetching"
    /\ LET t1 == [pjTrace EXCEPT
                    !.last = [attempt |-> pj.attempt, status |-> 0,
                              body |-> <<>>, text |-> <<>>, error |-> e,
                              guard |-> 0],
                    !.onlyRetryable = FALSE,
                    !.onlyTimeouts = FALSE]
           r == Catch(pj, t1, e)
       IN /\ pj' = r[1]
          /\ pjTrace' = r[2]
    /\ UNCHANGED <<CONFIG, schedVars>>

\* the timeout guard armed by attempt k fires: controller.abort(); the fetch
\* that holds the signal of that controller, when it is pending, rejects with
\* AbortError
TimerFire(k) ==
    /\ k \in pj.timers
    /\ LET p1 == [pj EXCEPT !.timers = @ \ {k}]
           t1 == [pjTrace EXCEPT
                    !.last = [attempt |-> pj.attempt, status |-> 0,
                              body |-> <<>>, text |-> <<>>,
                              error |-> AbortErr, guard |-> k],
                    !.onlyRetryable = FALSE]
           r == IF pj.pc = "fetching" /\ Aborts(k, pj.attempt)
                THEN Catch(p1, t1, AbortErr)
                ELSE <<p1, pjTrace>>
       IN /\ pj' = r[1]
          /\ pjTrace' = r[2]
    /\ UNCHANGED <<CONFIG, schedVars>>

\* the backoff sleep is over: continue
SleepDone ==
    /\ pj.pc = "sleeping"
    /\ LET r == LoopHead([pj EXCEPT !.attempt = NextAttempt(@)], pjTrace)
       IN /\ pj' = r[1]
          /\ pjTrace' = r[2]
    /\ UNCHANGED <<CONFIG, schedVars>>

\* ----------------------------------------------------------------- Init
PjTraceIdle ==
    [requests |-> 0, sleeps |-> 0,
     lastSleep |-> [attempt |-> 0, ms |-> 0],
     last |-> [attempt |-> 0, status |-> 0, body |-> <<>>, text |-> <<>>,
               error |-> NoError, guard |-> 0],
     onlyRetryable |-> TRUE, onlyTimeouts |-> TRUE]

Init ==
    /\ CONFIG = DefaultConfig
    /\ tasks = <<>>
    /\ limit = <<>>
    /\ results = <<>>
    /\ i = 0
    /\ workers = <<>>
    /\ outcome = [state |-> "idle", value |-> <<>>]
    /\ trace = [claims |-> <<>>, starts |-> <<>>, writes |-> <<>>,
                inverted |-> FALSE,
                late |-> FALSE, failed |-> 0, first |-> <<>>, rejAt |-> <<>>,
                conc |-> 0, throttle |-> 0]
    /\ pj = PjIdle
    /\ pjTrace = PjTraceIdle

Next ==
    \/ \E ts \in Batches, lim \in Limits : Call(ts, lim)
    \/ \E w \in DOMAIN workers : TaskResolve(w)
    \/ \E w \in DOMAIN workers : TaskReject(w)
    \/ \E w \in DOMAIN workers : Wake(w)
    \/ \E c \in SchedPartials : SetConfig(c)

Spec == Init /\ [][Next]_vars

NextPost ==
    \/ PostJSON
    \/ \E status \in Statuses, body \in Bodies, readable \in BOOLEAN :
          FetchResolve(status, body, readable)
    \/ \E e \in TransportErrors : FetchReject(e)
    \/ \E k \in pj.timers : TimerFire(k)
    \/ SleepDone
    \/ \E c \in PostPartials : SetConfig(c)

SpecPost == Init /\ [][NextPost]_vars

\* the configuration surface alone
NextConfig == \E c \in ConfigPartials : SetConfig(c)

SpecConfig == Init /\ [][NextConfig]_vars

\* postJSON under every MAX_RETRY that setConfig accepts
NextPostAny ==
    \/ PostJSON
    \/ \E status \in Statuses, body \in Bodies, readable \in BOOLEAN :
          FetchResolve(status, body, readable)
    \/ \E e \in TransportErrors : FetchReject(e)
    \/ \E k \in pj.timers : TimerFire(k)
    \/ SleepDone
    \/ \E c \in AnyPartials : SetConfig(c)

SpecPostAny == Init /\ [][NextPostAny]_vars

\* the pending request settles: it responds, fails, or is aborted by its
\* timeout guard
Respond ==
    \/ \E status \in Statuses, body \in Bodies, readable \in BOOLEAN :
          FetchResolve(status, body, readable)
    \/ \E e \in TransportErrors : FetchReject(e)
    \/ \E k \in pj.timers : TimerFire(k)

\* postJSON in an environment where every request settles and every timer
\* of SLEEP fires
SpecPostFair ==
    Init /\ [][NextPostAny]_vars /\ WF_vars(Respond) /\ WF_vars(SleepDone)

\* ------------------------------------------- properties: worker pool
Called == outcome.state # "idle" /\ Len(tasks) > 0

Clamp(x, lo, hi) == IF x < lo THEN lo ELSE IF x > hi THEN hi ELSE x

\* the requested limit of the call: limit, or the configured CONCURRENCY
\* at the time of the call when no limit was passed
Requested == IF limit = <<>> THEN trace.conc ELSE limit[1]

\* C1: order preservation.  When runWithConcurrency returns, the result has
\* one entry per operation and entry k is the value operation k produced,
\* whatever the order in which the operations completed.
C1_OrderPreservation ==
    outcome.state = "fulfilled" =>
        /\ Len(outcome.value) = Len(tasks)
        /\ \A k \in 1..Len(tasks) : outcome.value[k] = tasks[k].val

\* a batch that returned although a later operation completed before an
\* earlier one, the operations producing different values
C1_Witness ==
    /\ outcome.state = "fulfilled"
    /\ trace.inverted
    /\ \A k \in 2..Len(tasks) : tasks[k].val # tasks[k - 1].val
    /\ Len(tasks) > 2

\* C2: concurrency bound.  The number of operations started and not yet
\* completed never exceeds clamp(limit, 1, len(batch)).
C2_ConcurrencyBound ==
    Called => Cardinality(InFlight) <= Clamp(Requested, 1, Len(tasks))

\* the bound is reached while it is below the size of the batch
C2_Witness ==
    /\ Called
    /\ Clamp(Requested, 1, Len(tasks)) = 2
    /\ Len(tasks) > 2
    /\ Cardinality(InFlight) = 2
    /\ \E k \in 1..Len(tasks) : trace.writes[k] > 0

\* C3: exactly-once claim.  Every index is claimed at most once and its slot
\* written at most once; when the batch returns every index has been claimed
\* once and every slot written once.
C3_ExactlyOnce ==
    Called =>
        /\ \A k \in 1..Len(tasks) :
              /\ trace.claims[k] <= 1
              /\ trace.writes[k] <= 1
        /\ outcome.state = "fulfilled" =>
              \A k \in 1..Len(tasks) :
                  /\ trace.claims[k] = 1
                  /\ trace.writes[k] = 1
                  /\ results[k] # Empty

\* several workers shared a batch larger than their number, and it returned
C3_Witness ==
    /\ outcome.state = "fulfilled"
    /\ Cardinality(DOMAIN workers) = 2
    /\ Len(tasks) > 2

\* C4: limit clamping.  For a non-empty batch the number of workers is
\* clamp(limit ?? CONCURRENCY, 1, len(batch)): at least 1, at most len(batch).
C4_LimitClamping ==
    Called =>
        /\ Cardinality(DOMAIN workers) = Clamp(Requested, 1, Len(tasks))
        /\ Cardinality(DOMAIN workers) >= 1
        /\ Cardinality(DOMAIN workers) <= Len(tasks)

\* limit=100 with three operations: three workers
C4_Witness ==
    /\ Called
    /\ limit = <<100>>
    /\ Len(tasks) = 3
    /\ Cardinality(DOMAIN workers) = 3

\* C5: failure propagation.  Once an operation has failed the batch is
\* rejected with the failure of the operation that failed first, and a
\* batch that returned normally had no failed operation.
C5_FailurePropagation ==
    /\ trace.failed > 0 =>
          /\ outcome.state = "rejected"
          /\ outcome.value = <<tasks[trace.first[1] + 1].val, trace.first[1]>>
    /\ outcome.state = "fulfilled" => trace.failed = 0

\* two operations failed one after the other, the later one in the batch
\* first
C5_Witness ==
    /\ outcome.state = "rejected"
    /\ trace.failed >= 2
    /\ \E w \in DOMAIN workers :
          /\ workers[w].pc = "failed"
          /\ workers[w].cur < trace.first[1]

\* --------------------------------------------- properties: postJSON
Settled == pj.pc \in {"returned", "thrown"}

Last == pjTrace.last

SuccessStatus(s) == s \in 200..299

\* C6: attempt bound.  The number of requests issued by a call never exceeds
\* the MAX_RETRY the call read when it started.
C6_AttemptBound ==
    pj.pc # "idle" => pjTrace.requests <= pj.MAX_RETRY

\* a call used up its attempts after the configuration had been changed
C6_Witness ==
    /\ pj.pc = "thrown"
    /\ pj.MAX_RETRY >= 3
    /\ pjTrace.requests = pj.MAX_RETRY
    /\ CONFIG.MAX_RETRY # pj.MAX_RETRY

\* C7 (as stated): when every attempt received 429 or 5xx, exactly MAX_RETRY
\* requests were issued and the call threw 'HTTP <status>: <body>' with the
\* status and the body of the last response.
C7_MessageIsStatusAndBody ==
    (Settled /\ pjTrace.onlyRetryable) =>
        /\ pjTrace.requests = pj.MAX_RETRY
        /\ pj.pc = "thrown"
        /\ pj.error.name = "Error"
        /\ pj.error.message = <<"HTTP", ToString(Last.status), ":">> \o Last.body

\* C7 (amended): when every attempt received 429 or 5xx, exactly MAX_RETRY
\* requests were issued and the call threw 'HTTP <status>: <text>', where
\* <text> is the body of the last response, or the fixed default text when
\* that body is empty or could not be read.
C7_RetryExhaustion ==
    (Settled /\ pjTrace.onlyRetryable) =>
        /\ pjTrace.requests = pj.MAX_RETRY
        /\ pj.pc = "thrown"
        /\ pj.error.name = "Error"
        /\ pj.error.message =
              <<"HTTP", ToString(Last.status), ":">> \o
              (IF Last.text = <<>> THEN DefaultText ELSE Last.text)

\* every one of several attempts received a retryable status, the last one
\* with an empty body
C7_Witness ==
    /\ pj.pc = "thrown"
    /\ pjTrace.onlyRetryable
    /\ pjTrace.requests = pj.MAX_RETRY
    /\ pj.MAX_RETRY >= 2
    /\ Last.status = 429
    /\ Last.body = <<>>

\* C8: early-success short-circuit.  Once attempt k has received a success
\* status the call is over with exactly k requests issued: its result is the
\* parsed body of that response (the failure of the parse when the body is
\* no JSON text), and no request follows.
C8_EarlySuccess ==
    (Last.attempt >= 1 /\ Last.status # 0 /\ SuccessStatus(Last.status)) =>
        /\ Settled
        /\ pjTrace.requests = Last.attempt
        /\ IF IsJson(Last.body) /\ Last.text = Last.body
           THEN pj.pc = "returned" /\ pj.value = JsonParse(Last.body)
           ELSE pj.pc = "thrown" /\ pj.error.name \in {"SyntaxError", "TypeError"}

\* a success on a later attempt, after retries
C8_Witness ==
    /\ pj.pc = "returned"
    /\ SuccessStatus(Last.status)
    /\ Last.status # 0
    /\ Last.attempt >= 3
    /\ pjTrace.requests = Last.attempt
    /\ pjTrace.sleeps = Last.attempt - 1

\* C9: terminal HTTP errors are not retried.  When an attempt received a
\* status that is neither a success nor 429 nor 5xx, the call has failed on
\* that attempt with an error carrying the status and the body, no further
\* request is issued and no backoff sleep is performed.
C9_TerminalNotRetried ==
    (Last.attempt >= 1 /\ Last.status # 0 /\ ~SuccessStatus(Last.status)
        /\ ~RetryableStatus(Last.status)) =>
        /\ pj.pc = "thrown"
        /\ pjTrace.requests = Last.attempt
        /\ pj.sleepMs = 0
        /\ pj.error.name = "Error"
        /\ pj.error.message[2] = ToString(Last.status)
        /\ Last.text # <<>> =>
              SubSeq(pj.error.message, 4, Len(pj.error.message)) = Last.text

\* C10: exponential backoff.  After attempt k received 429 or 5xx with
\* attempts remaining, the sleep is min(2000, 200 * 2^(k-1)) ms: 200, 400,
\* 800 after attempts 1, 2, 3, and never more than 2000.
C10_ExponentialBackoff ==
    (pj.pc = "sleeping" /\ Last.status # 0 /\ RetryableStatus(Last.status)) =>
        LET k == pj.attempt
            ms == pj.sleepMs
        IN /\ Last.attempt = k
           /\ pjTrace.lastSleep = [attempt |-> k, ms |-> ms]
           /\ ms = (IF 200 * 2^(k - 1) < 2000 THEN 200 * 2^(k - 1) ELSE 2000)
           /\ ms <= 2000
           /\ k = 1 => ms = 200
           /\ k = 2 => ms = 400
           /\ k = 3 => ms = 800

\* the sleep after the fifth attempt, where the cap applies
C10_Witness ==
    /\ pj.pc = "sleeping"
    /\ Last.status = 429
    /\ pj.attempt = 5
    /\ pj.sleepMs = 2000

\* C11: linear backoff on timeout.  When every attempt of a call was aborted
\* by its timeout guard, the sleep after attempt k < MAX_RETRY is 300 * k ms
\* (300, 600, 900), exactly MAX_RETRY requests are issued, and the call then
\* throws the abort error of the last attempt.
C11_LinearBackoffOnTimeout ==
    (pj.pc # "idle" /\ pjTrace.onlyTimeouts) =>
        /\ pj.pc = "sleeping" =>
              LET k == pj.attempt IN
              /\ k < pj.MAX_RETRY
              /\ pjTrace.requests = k
              /\ pj.sleepMs = 300 * k
              /\ pjTrace.lastSleep = [attempt |-> k, ms |-> 300 * k]
              /\ k = 1 => pj.sleepMs = 300
              /\ k = 2 => pj.sleepMs = 600
              /\ k = 3 => pj.sleepMs = 900
        /\ Settled =>
              /\ pj.pc = "thrown"
              /\ pjTrace.requests = pj.MAX_RETRY
              /\ pjTrace.sleeps = pj.MAX_RETRY - 1
              /\ Last.attempt = pj.MAX_RETRY
              /\ pj.error = Last.error
              /\ pj.error.name = "AbortError"

\* four attempts, each aborted by its guard, the last sleep 900 ms
C11_Witness ==
    /\ pj.pc = "thrown"
    /\ pjTrace.onlyTimeouts
    /\ pj.MAX_RETRY = 4
    /\ pjTrace.requests = 4
    /\ pjTrace.lastSleep = [attempt |-> 3, ms |-> 900]
    /\ pj.error.name = "AbortError"

\* C17: exhaustion before sleeping.  No backoff sleep is performed on the
\* attempt numbered MAX_RETRY: a call sleeps at most MAX_RETRY - 1 times, and
\* when it is over no sleep has followed its last request.
C17_ExhaustionBeforeSleeping ==
    pj.pc # "idle" =>
        /\ pjTrace.sleeps <= pj.MAX_RETRY - 1
        /\ pj.pc = "sleeping" => pj.attempt < pj.MAX_RETRY
        /\ pj.pc = "fetching" => pjTrace.sleeps = pjTrace.requests - 1
        /\ Settled =>
              /\ pjTrace.sleeps = pjTrace.requests - 1
              /\ pj.sleepMs = 0
              /\ pjTrace.lastSleep.attempt < pjTrace.requests

\* a failure on the last of several attempts, after MAX_RETRY - 1 sleeps
C17_Witness ==
    /\ pj.pc = "thrown"
    /\ pj.MAX_RETRY >= 3
    /\ Last.attempt = pj.MAX_RETRY
    /\ pjTrace.sleeps = pj.MAX_RETRY - 1
    /\ Last.status = 500

\* the failures of fetch by class
IsTimeout(e) == e.name = "AbortError"
IsConnectivity(e) == e.name = "TypeError" /\ e.message = <<"Failed", "to", "fetch">>

\* C18: terminal transport failures.  A timeout or a recognised connectivity
\* failure on the attempt numbered MAX_RETRY is rethrown unchanged; a failure
\* of fetch that is neither is rethrown unchanged on the attempt where it
\* occurred; in both cases no request and no sleep follows.
C18_TerminalTransportFailures ==
    (Last.attempt >= 1 /\ Last.status = 0
        /\ (Last.attempt = pj.MAX_RETRY
            \/ ~(IsTimeout(Last.error) \/ IsConnectivity(Last.error)))) =>
        /\ pj.pc = "thrown"
        /\ pj.error = Last.error
        /\ pjTrace.requests = Last.attempt
        /\ pj.sleepMs = 0
        /\ pjTrace.lastSleep.attempt < Last.attempt

\* an unrecognised failure on an attempt that was not the last one allowed
C18_Witness ==
    /\ pj.pc = "thrown"
    /\ pj.error = [name |-> "TypeError", message |-> <<"Load", "failed">>]
    /\ Last.attempt = 2
    /\ pj.MAX_RETRY >= 4

\* C19: no silent loop exit.  A call that completed normally received a
\* success status in that call and returned the parsed body of that response.
C19_NoSilentLoopExit ==
    pj.pc = "returned" =>
        /\ Last.attempt >= 1
        /\ Last.status # 0
        /\ SuccessStatus(Last.status)
        /\ pj.value = JsonParse(Last.body)

\* C21: timeout guard scope.  Each attempt arms a guard of its own and
\* disarms it when its request resolves or throws: while a request is
\* pending exactly the guard of that attempt is armed, at most one guard is
\* armed in any state, none during a backoff sleep or after the call has
\* returned or thrown, and a request that was aborted was aborted by the
\* guard of its own attempt.
C21_TimeoutGuardScope ==
    pj.pc # "idle" =>
        /\ Cardinality(pj.timers) <= 1
        /\ pj.pc = "fetching" => pj.timers = {pj.attempt}
        /\ pj.pc \in {"sleeping", "returned", "thrown"} => pj.timers = {}
        /\ Last.guard # 0 =>
              /\ Last.guard = Last.attempt
              /\ Last.error = AbortErr

\* the third attempt is pending under its own guard, the second one having
\* been aborted by its guard
C21_Witness ==
    /\ pj.pc = "fetching"
    /\ pj.attempt = 3
    /\ pj.timers = {3}
    /\ Last.guard = 2
    /\ pjTrace.sleeps = 2

\* C22: termination.  When every request settles (responds, fails or is
\* aborted by its guard) and every sleep ends, a call that has started
\* eventually returns or throws.
C22_Termination ==
    (pj.pc \in {"fetching", "sleeping"}) ~> Settled

\* a call that ended only after the largest number of attempts, each of them
\* aborted by its guard
C22_Witness ==
    /\ Settled
    /\ pj.MAX_RETRY = MaxRetryBound
    /\ pjTrace.requests = MaxRetryBound
    /\ pjTrace.sleeps = MaxRetryBound - 1
    /\ Last.guard = MaxRetryBound

\* ------------------------------- properties: configuration, worker pool
\* C12: configuration isolation.  A setConfig during a batch does not change
\* the values the batch uses: the number of workers is the one given by the
\* concurrency in force when the batch started, and a worker sleeps exactly
\* when the throttle in force at that time was positive, and for that long.
C12_ConfigIsolation ==
    Called =>
        /\ Cardinality(DOMAIN workers) = Clamp(Requested, 1, Len(tasks))
        /\ \A w \in DOMAIN workers :
              workers[w].pc = "sleeping" =>
                  /\ trace.throttle > 0
                  /\ workers[w].ms = trace.throttle

\* C13: empty batch.  A call with an empty batch returns an empty sequence;
\* no worker is spawned, the cursor stays at 0 and no operation is started,
\* whatever the limit and the configuration.
C13_EmptyBatch ==
    (outcome.state # "idle" /\ Len(tasks) = 0) =>
        /\ outcome = [state |-> "fulfilled", value |-> <<>>]
        /\ workers = <<>>
        /\ i = 0
        /\ results = <<>>
        /\ trace.claims = <<>>
        /\ InFlight = {}

\* an empty batch with a large limit, under a configuration that was changed
C13_Witness ==
    /\ outcome.state = "fulfilled"
    /\ tasks = <<>>
    /\ limit = <<100>>
    /\ CONFIG.CONCURRENCY = 2
    /\ CONFIG.THROTTLE_MS = 100

KnownKeys == DOMAIN DefaultConfig

\* C14: setConfig merge.  setConfig ignores the keys outside the known
\* configuration set: getConfig never exposes a key that is not one of the
\* configuration keys.
C14_SetConfigMerge ==
    DOMAIN GetConfig(CONFIG) \subseteq KnownKeys

\* C15: join on success.  When runWithConcurrency has returned, every worker
\* has terminated, no operation is in flight, and the result has len(batch)
\* entries, every one of them written.
C15_JoinOnSuccess ==
    (outcome.state = "fulfilled" /\ Len(tasks) > 0) =>
        /\ \A w \in DOMAIN workers : workers[w].pc = "done"
        /\ InFlight = {}
        /\ Len(outcome.value) = Len(tasks)
        /\ \A k \in 1..Len(tasks) : outcome.value[k] # Empty
        /\ outcome.value = results

\* a return after the workers had slept between their operations and ended
\* at different times
C15_Witness ==
    /\ outcome.state = "fulfilled"
    /\ Cardinality(DOMAIN workers) >= 2
    /\ Len(tasks) > 2
    /\ trace.inverted
    /\ CONFIG.THROTTLE_MS > 0

\* C16: no cancellation of siblings.  After the rejection every operation
\* that has been claimed is either still in flight and able to complete, or
\* has completed by itself: its slot written with its value, or its own
\* failure.  None is dropped.
C16_NoCancellation ==
    outcome.state = "rejected" =>
        \A k \in 1..Len(tasks) :
            trace.claims[k] >= 1 =>
                \/ \E w \in DOMAIN workers :
                      /\ workers[w].pc = "running"
                      /\ workers[w].cur = k - 1
                      /\ ENABLED (TaskResolve(w) \/ TaskReject(w))
                \/ /\ tasks[k].ok
                   /\ trace.writes[k] = 1
                   /\ results[k] = tasks[k].val
                \/ /\ ~tasks[k].ok
                   /\ \E w \in DOMAIN workers :
                         workers[w].pc = "failed" /\ workers[w].cur = k - 1

\* two workers, two operations: the first failed, and the second, in flight
\* at that moment, wrote its slot after the rejection
C16_Witness ==
    /\ outcome.state = "rejected"
    /\ Len(tasks) = 2
    /\ Cardinality(DOMAIN workers) = 2
    /\ trace.first = <<0>>
    /\ trace.late
    /\ results[2] = tasks[2].val

\* worker w ended an operation normally in this step
Finished(w) ==
    /\ workers[w].pc = "running"
    /\ workers'[w] # workers[w]
    /\ workers'[w].pc # "failed"

\* worker w read and incremented the cursor in this step
Claimed(w) ==
    /\ workers'[w].pc \in {"running", "done"}
    /\ workers'[w].cur = i
    /\ i' = i + 1

\* C20: throttle between claims.  A worker that ends an operation while the
\* throttle is positive sleeps for the throttle duration without touching
\* the cursor, also after the last operation, and claims when the sleep is
\* over; with a throttle of 0 it claims in the same step.
C20_ThrottleBetweenClaims ==
    [][\A w \in DOMAIN workers :
          /\ Finished(w) =>
                IF CONFIG.THROTTLE_MS > 0
                THEN /\ workers'[w].pc = "sleeping"
                     /\ workers'[w].ms = CONFIG.THROTTLE_MS
                     /\ workers'[w].cur = workers[w].cur
                     /\ i' = i
                ELSE Claimed(w)
          /\ (workers[w].pc = "sleeping" /\ workers'[w] # workers[w]) =>
                Claimed(w)]_vars

\* a worker asleep after the last operation of the batch
C20_Witness ==
    /\ Called
    /\ i >= Len(tasks)
    /\ \A k \in 1..Len(tasks) : results[k] # Empty
    /\ \E w \in DOMAIN workers :
          workers[w].pc = "sleeping" /\ workers[w].ms = 100

\* worker w went through the head of its loop in this step
LoopPass(w) ==
    /\ workers[w].pc \in {"running", "sleeping"}
    /\ workers'[w] # workers[w]
    /\ workers'[w].pc \notin {"failed", "sleeping"}

\* C23: stragglers keep claiming.  After the rejection of the batch every
\* surviving worker can still take its next step, and each time it goes
\* through the head of its loop it reads and advances the cursor and, while
\* the cursor is inside the batch, starts that operation, one that was not
\* claimed when the batch was rejected; a worker ends normally only on a
\* cursor past the end of the batch.
C23_StragglersKeepClaiming ==
    /\ [](outcome.state = "rejected" =>
            \A w \in DOMAIN workers :
                /\ workers[w].pc = "running" =>
                      ENABLED (TaskResolve(w) \/ TaskReject(w))
                /\ workers[w].pc = "sleeping" => ENABLED Wake(w)
                /\ workers[w].pc = "done" =>
                      /\ workers[w].cur >= Len(tasks)
                      /\ i > workers[w].cur)
    /\ [][outcome.state = "rejected" =>
            \A w \in DOMAIN workers :
                LoopPass(w) =>
                    /\ Claimed(w)
                    /\ i < Len(tasks) =>
                          /\ workers'[w].pc = "running"
                          /\ trace'.claims[i + 1] = trace.claims[i + 1] + 1
                          /\ i >= trace.rejAt[1]]_vars

\* the first of three operations failed while the third was unclaimed; the
\* other worker has started the third since
C23_Witness ==
    /\ outcome.state = "rejected"
    /\ Len(tasks) = 3
    /\ trace.first = <<0>>
    /\ trace.rejAt = <<2>>
    /\ \E w \in DOMAIN workers :
          workers[w].pc = "running" /\ workers[w].cur = 2

Retired == {w \in DOMAIN workers : workers[w].pc = "failed"}

\* C24: a failed operation retires its worker.  Every failure leaves one
\* worker stopped for good on the index that failed: that worker takes no
\* further step, so it claims no further index, and the slot of a failing
\* operation is never written.  Once every worker has failed the cursor
\* stays where it is and the operations from the cursor on are never
\* started.
C24_FailedWorkerRetires ==
    /\ [](Called =>
            /\ Cardinality(Retired) = trace.failed
            /\ \A k \in 1..Len(tasks) :
                  ~tasks[k].ok => results[k] = Empty /\ trace.writes[k] = 0
            /\ \A w \in Retired :
                  /\ ~tasks[workers[w].cur + 1].ok
                  /\ trace.claims[workers[w].cur + 1] = 1
                  /\ ~ENABLED (TaskResolve(w) \/ TaskReject(w) \/ Wake(w))
            /\ Retired = DOMAIN workers =>
                  \A k \in (i + 1)..Len(tasks) :
                      trace.claims[k] = 0 /\ results[k] = Empty)
    /\ [][Called =>
            /\ \A w \in Retired : workers'[w] = workers[w]
            /\ Retired = DOMAIN workers =>
                  i' = i /\ trace'.claims = trace.claims]_vars

\* both workers failed on the first two operations; the third was never
\* started
C24_Witness ==
    /\ Len(tasks) = 3
    /\ Cardinality(DOMAIN workers) = 2
    /\ Retired = DOMAIN workers
    /\ i = 2
    /\ tasks[3].ok
    /\ trace.claims[3] = 0

\* the operations started so far
Started == {k \in 1..Len(tasks) : trace.claims[k] >= 1}

\* C25: start order follows index order.  The operations of a call are
\* started in strictly ascending index order, 0, 1, 2, ... without a gap:
\* the sequence of the starts is ascending, and the set of the started
\* operations is a prefix of the batch, the one below the cursor.
C25_StartOrder ==
    Called =>
        /\ \A a, b \in 1..Len(trace.starts) :
              a < b => trace.starts[a] < trace.starts[b]
        /\ trace.starts = [k \in 1..Len(trace.starts) |-> k - 1]
        /\ Started = 1..Len(trace.starts)
        /\ Len(trace.starts) = (IF i < Len(tasks) THEN i ELSE Len(tasks))

\* three operations started in order by two workers although the second
\* operation completed before the first
C25_Witness ==
    /\ Called
    /\ Cardinality(DOMAIN workers) = 2
    /\ trace.starts = <<0, 1, 2>>
    /\ results[1] = Empty
    /\ results[2] # Empty

====
